---- MODULE Spec2Model ----
(***************************************************************************)
(* A model of scripts/agreement.py: the corpus synchronizer (coordinate),  *)
(* the span overlap engine (overlap_spans, partial_score), the agreement   *)
(* aggregator (concepts_agreement, relations_agreement, agreement,         *)
(* compute_metrics) and the label loop of the evaluation driver (main).    *)
(*                                                                         *)
(* Each component has its own specification over the shared variables:     *)
(*   SpecCoordinate / FairSpecCoordinate, SpecOverlap, SpecAgreement,      *)
(*   SpecDriver.                                                           *)
(* The variables of the components a specification does not run stay at    *)
(* their idle values.                                                      *)
(***************************************************************************)
EXTENDS Integers, Sequences, FiniteSets, TLC

VARIABLES
    \* ---- coordinate(gold, submit) ----
    gold0,      \* gold.sentences (their texts) when coordinate is called
    submit0,    \* submit.sentences (their texts) when coordinate is called
    gold,       \* gold.sentences, texts only
    submit,     \* submit.sentences, texts only
    i,          \* the local i of coordinate (0-based, as in the code)
    dropped,    \* the texts printed on "Dropped:" lines, in order
    pc,         \* where coordinate is: "loop", "trunc_gold", "trunc_submit",
                \* "done" (returned), "raised" (IndexError), or "idle"
    \* ---- overlap_spans / partial_score ----
    spans1,     \* keyphrase1.spans
    spans2,     \* keyphrase2.spans
    ovResult,   \* what overlap_spans(spans1, spans2) returned, or NoPair
    psResult,   \* what partial_score(keyphrase1, keyphrase2) returned
    \* ---- agreement aggregator ----
    data,       \* the match-outcome mapping
    fn,         \* the function that was called last
    allFlag,    \* the argument `all` of concepts_agreement
    result,     \* what the call returned or raised
    \* ---- main ----
    keyphrases, \* sorted keyphrase labels of gold
    relations,  \* sorted relation labels of gold
    propagate_error,
    group,      \* index into [keyphrases, relations, ["Global"]] (0-based)
    idx,        \* index into the current label list (0-based)
    calls,      \* the arguments match_relations was called with, in order
    history,    \* history[label], the match outcomes kept per label
    mpc         \* "labels", "done", "raised", or "idle"

coordVars == <<gold0, submit0, gold, submit, i, dropped, pc>>
ovVars == <<spans1, spans2, ovResult, psResult>>
agVars == <<data, fn, allFlag, result>>
drvVars == <<keyphrases, relations, propagate_error, group, idx, calls, history, mpc>>
vars == <<coordVars, ovVars, agVars, drvVars>>

\* ------------------------------------------------------------------ bounds
\* The number of distinct sentence texts.
NumTexts == 3
\* The longest sentence sequence of a collection.
MaxLen == 3
\* The largest character offset of an enumerated span.
MaxOffset == 4
\* The largest number of spans (fragments) of an enumerated keyphrase.
MaxSpans == 2
\* The largest size of a match-outcome bucket other than PARTIAL_A.
MaxCount == 1
\* The largest number of pairs in PARTIAL_A.
MaxPartial == 1

\* ----------------------------------------------------------------- helpers
\* A variable that holds no value yet: no call has returned.
NoResult == [none |-> TRUE]
NoPair == <<>>

\* An exception that left a call.
Err(name) == [error |-> name]
IsError(v) == DOMAIN v = {"error"}

Min(a, b) == IF a < b THEN a ELSE b

SeqsUpTo(S, n) == UNION {[1..k -> S] : k \in 0..n}

\* ------------------------------------------------------- idle components
CoordIdle ==
    /\ gold0 = <<>> /\ submit0 = <<>> /\ gold = <<>> /\ submit = <<>>
    /\ i = 0 /\ dropped = <<>> /\ pc = "idle"

OvIdle ==
    /\ spans1 = <<>> /\ spans2 = <<>>
    /\ ovResult = NoPair /\ psResult = NoResult

AgIdle ==
    /\ data = NoResult /\ fn = "idle" /\ allFlag = TRUE /\ result = NoResult

DrvIdle ==
    /\ keyphrases = <<>> /\ relations = <<>> /\ propagate_error = TRUE
    /\ group = 0 /\ idx = 0 /\ calls = <<>> /\ history = <<>> /\ mpc = "idle"

\* ============================================================ coordinate
Text == 1..NumTexts

\* len(collection): Collection.__len__ is the number of its sentences.
CollectionLen(c) == Len(c)

\* collection.sentences[k].text, k 0-based as in the code.
At(c, k) == c[k + 1]

\* del collection.sentences[k], k 0-based.
DelAt(c, k) == SubSeq(c, 1, k) \o SubSeq(c, k + 2, Len(c))

\* collection.pop(): the last sentence is removed.
Pop(c) == SubSeq(c, 1, Len(c) - 1)

\* The loop condition of line 130.
InLoop == pc = "loop" /\ i < Min(CollectionLen(gold), CollectionLen(submit))

\* Line 131 is false: the texts at i differ.
Mismatch == InLoop /\ At(gold, i) # At(submit, i)

\* gold.sentences[i + 1] and submit.sentences[i + 1] exist.
GoldHasNext == i + 1 < Len(gold)
SubmitHasNext == i + 1 < Len(submit)

InitCoordinate ==
    /\ gold0 \in SeqsUpTo(Text, MaxLen)
    /\ submit0 \in SeqsUpTo(Text, MaxLen)
    /\ gold = gold0 /\ submit = submit0
    /\ i = 0 /\ dropped = <<>> /\ pc = "loop"
    /\ OvIdle /\ AgIdle /\ DrvIdle

\* A faulty Match: the texts match but i is not advanced (line 132 lost).
MutMatch ==
    /\ InLoop
    /\ At(gold, i) = At(submit, i)
    /\ i' = i
    /\ UNCHANGED <<ovVars, agVars, drvVars, gold0, submit0, gold, submit, dropped, pc>>

\* Lines 131-133: the texts match, advance.
Match ==
    /\ InLoop
    /\ At(gold, i) = At(submit, i)
    /\ i' = i + 1
    /\ UNCHANGED <<ovVars, agVars, drvVars, gold0, submit0, gold, submit, dropped, pc>>

\* Line 134 reads gold.sentences[i + 1] past the end of the list, or line 137
\* reads submit.sentences[i + 1] past the end: IndexError leaves coordinate.
RaiseIndexError ==
    /\ Mismatch
    /\ \/ ~GoldHasNext
       \/ /\ GoldHasNext
          /\ At(gold, i + 1) # At(submit, i)
          /\ ~SubmitHasNext
    /\ pc' = "raised"
    /\ UNCHANGED <<ovVars, agVars, drvVars, gold0, submit0, gold, submit, i, dropped>>

\* Lines 134-136: gold has an extra sentence at i.
DropGold ==
    /\ Mismatch
    /\ GoldHasNext
    /\ At(gold, i + 1) = At(submit, i)
    /\ dropped' = Append(dropped, At(gold, i))
    /\ gold' = DelAt(gold, i)
    /\ UNCHANGED <<ovVars, agVars, drvVars, gold0, submit0, submit, i, pc>>

\* Lines 137-139: submit has an extra sentence at i.
DropSubmit ==
    /\ Mismatch
    /\ GoldHasNext
    /\ At(gold, i + 1) # At(submit, i)
    /\ SubmitHasNext
    /\ At(gold, i) = At(submit, i + 1)
    /\ dropped' = Append(dropped, At(submit, i))
    /\ submit' = DelAt(submit, i)
    /\ UNCHANGED <<ovVars, agVars, drvVars, gold0, submit0, gold, i, pc>>

\* A faulty DropBoth: i is advanced after the two deletions, so the pair that
\* moved to position i is never compared.
MutDropBoth ==
    /\ Mismatch
    /\ GoldHasNext
    /\ At(gold, i + 1) # At(submit, i)
    /\ SubmitHasNext
    /\ At(gold, i) # At(submit, i + 1)
    /\ dropped' = Append(Append(dropped, At(gold, i)), At(submit, i))
    /\ gold' = DelAt(gold, i)
    /\ submit' = DelAt(submit, i)
    /\ i' = i + 1
    /\ UNCHANGED <<ovVars, agVars, drvVars, gold0, submit0, pc>>

\* Lines 140-144: neither lookahead matches, one sentence goes from each.
DropBoth ==
    /\ Mismatch
    /\ GoldHasNext
    /\ At(gold, i + 1) # At(submit, i)
    /\ SubmitHasNext
    /\ At(gold, i) # At(submit, i + 1)
    /\ dropped' = Append(Append(dropped, At(gold, i)), At(submit, i))
    /\ gold' = DelAt(gold, i)
    /\ submit' = DelAt(submit, i)
    /\ UNCHANGED <<ovVars, agVars, drvVars, gold0, submit0, i, pc>>

\* Line 130 is false: the main loop is left.
ExitLoop ==
    /\ pc = "loop"
    /\ ~(i < Min(CollectionLen(gold), CollectionLen(submit)))
    /\ pc' = "trunc_gold"
    /\ UNCHANGED <<ovVars, agVars, drvVars, gold0, submit0, gold, submit, i, dropped>>

\* Lines 145-146: gold is the longer one, its last sentence goes; nothing is
\* printed.
PopGold ==
    /\ pc = "trunc_gold"
    /\ IF CollectionLen(gold) # Min(CollectionLen(gold), CollectionLen(submit))
       THEN gold' = Pop(gold) /\ pc' = pc
       ELSE gold' = gold /\ pc' = "trunc_submit"
    /\ UNCHANGED <<ovVars, agVars, drvVars, gold0, submit0, submit, i, dropped>>

\* Lines 147-148: submit is the longer one, its last sentence goes; nothing
\* is printed. When the lengths agree coordinate returns.
PopSubmit ==
    /\ pc = "trunc_submit"
    /\ IF CollectionLen(submit) # Min(CollectionLen(gold), CollectionLen(submit))
       THEN submit' = Pop(submit) /\ pc' = pc
       ELSE submit' = submit /\ pc' = "done"
    /\ UNCHANGED <<ovVars, agVars, drvVars, gold0, submit0, gold, i, dropped>>

NextCoordinate ==
    \/ Match
    \/ RaiseIndexError
    \/ DropGold
    \/ DropSubmit
    \/ DropBoth
    \/ ExitLoop
    \/ PopGold
    \/ PopSubmit

SpecCoordinate == InitCoordinate /\ [][NextCoordinate]_vars

\* coordinate is one synchronous call: once called it runs to its return or
\* to the exception that leaves it.
FairSpecCoordinate == SpecCoordinate /\ WF_vars(NextCoordinate)

\* ================================================ overlap_spans, partial_score
\* A span is a half-open interval <<start, end>> of character offsets.
Spans == {p \in (0..MaxOffset) \X (0..MaxOffset) : p[1] < p[2]}

\* The spans of one keyphrase do not overlap; they may touch.
Disjoint(ss) ==
    \A j \in 1..Len(ss), k \in 1..Len(ss) :
        j # k => (ss[j][2] <= ss[k][1] \/ ss[k][2] <= ss[j][1])

\* The span sequences a keyphrase can own, in any order.
SpanSets == {ss \in SeqsUpTo(Spans, MaxSpans) : Disjoint(ss)}

\* The four calls of the doctest of overlap_spans.
Examples ==
    { << <<<<2, 8>>>>, <<<<4, 10>>>> >>,
      << <<<<2, 8>>>>, <<<<8, 10>>>> >>,
      << <<<<2, 8>>, <<8, 10>>>>, <<<<8, 10>>>> >>,
      << <<<<2, 8>>, <<9, 10>>>>, <<<<8, 10>>>> >> }

\* Line 37: tags = [0, 0] * len(spans1) + [1, 1] * len(spans2)
Tags(s1, s2) ==
    [k \in 1..(2 * Len(s1) + 2 * Len(s2)) |-> IF k <= 2 * Len(s1) THEN 0 ELSE 1]

\* Line 38: the endpoints of the spans of ss, span after span.
Flatten(ss) ==
    [k \in 1..(2 * Len(ss)) |-> ss[(k + 1) \div 2][IF k % 2 = 1 THEN 1 ELSE 2]]

\* zip(a, b)
Zip(a, b) == [k \in 1..Min(Len(a), Len(b)) |-> <<a[k], b[k]>>]

\* The order of Python tuples (offset, tag): p <= q.
TupleLeq(p, q) == p[1] < q[1] \/ (p[1] = q[1] /\ p[2] <= q[2])

\* p put into the sorted sequence s, after the elements that are <= p.
Insert(p, s) ==
    LET k == Cardinality({j \in 1..Len(s) : TupleLeq(s[j], p)})
    IN  SubSeq(s, 1, k) \o <<p>> \o SubSeq(s, k + 1, Len(s))

RECURSIVE InsertionSort(_)
InsertionSort(s) ==
    IF s = <<>> THEN <<>>
    ELSE Insert(s[Len(s)], InsertionSort(SubSeq(s, 1, Len(s) - 1)))

\* A faulty sort: the endpoints are swept in the order they were listed.
MutSorted(s) == s

\* sorted(...) of line 45.
Sorted(s) == InsertionSort(s)

\* Lines 40-43: the locals before the loop.
SweepInit ==
    [state |-> [t \in {0, 1} |-> FALSE], last |-> 0, union |-> 0, intersection |-> 0]

\* A faulty step: the intersection grows whenever set 0 is open (state[0]
\* tested in place of all(state)).
MutSweepStep(acc, ev) ==
    LET delta == ev[1] - acc.last
    IN  [state |-> [acc.state EXCEPT ![ev[2]] = ~@],
         last |-> ev[1],
         union |-> IF acc.state[0] \/ acc.state[1]
                   THEN acc.union + delta ELSE acc.union,
         intersection |-> IF acc.state[0]
                          THEN acc.intersection + delta ELSE acc.intersection]

\* Lines 46-52: one iteration of the loop, for the endpoint ev = <<span, tag>>.
SweepStep(acc, ev) ==
    LET delta == ev[1] - acc.last
    IN  [state |-> [acc.state EXCEPT ![ev[2]] = ~@],
         last |-> ev[1],
         union |-> IF acc.state[0] \/ acc.state[1]
                   THEN acc.union + delta ELSE acc.union,
         intersection |-> IF acc.state[0] /\ acc.state[1]
                          THEN acc.intersection + delta ELSE acc.intersection]

\* Lines 45-52: the loop over the sorted endpoints.
RECURSIVE Sweep(_, _)
Sweep(events, acc) ==
    IF events = <<>> THEN acc
    ELSE Sweep(Tail(events), SweepStep(acc, Head(events)))

\* overlap_spans(spans1, spans2) = (intersection, union)
overlap_spans(s1, s2) ==
    LET r == Sweep(Sorted(Zip(Flatten(s1 \o s2), Tags(s1, s2))), SweepInit)
    IN  <<r.intersection, r.union>>

\* Rational numbers stand for Python's floats: n / d in lowest terms.
RECURSIVE GCD(_, _)
GCD(a, b) == IF b = 0 THEN a ELSE GCD(b, a % b)

\* n / d (true division), d > 0 and n >= 0.
Frac(n, d) == [num |-> n \div GCD(n, d), den |-> d \div GCD(n, d)]

\* n / d as Python evaluates it: ZeroDivisionError when d is 0.
Div(n, d) == IF d = 0 THEN Err("ZeroDivisionError") ELSE Frac(n, d)

\* partial_score(keyphrase1, keyphrase2), on the spans of the two keyphrases.
partial_score(k1, k2) ==
    LET r == overlap_spans(k1, k2) IN Div(r[1], r[2])

InitOverlap ==
    /\ \E p \in (SpanSets \X SpanSets) \cup Examples :
          spans1 = p[1] /\ spans2 = p[2]
    /\ ovResult = NoPair /\ psResult = NoResult
    /\ CoordIdle /\ AgIdle /\ DrvIdle

CallOverlapSpans ==
    /\ ovResult = NoPair
    /\ ovResult' = overlap_spans(spans1, spans2)
    /\ UNCHANGED <<coordVars, agVars, drvVars, spans1, spans2, psResult>>

CallPartialScore ==
    /\ psResult = NoResult
    /\ psResult' = partial_score(spans1, spans2)
    /\ UNCHANGED <<coordVars, agVars, drvVars, spans1, spans2, ovResult>>

NextOverlap ==
    \/ CallOverlapSpans
    \/ CallPartialScore

SpecOverlap == InitOverlap /\ [][NextOverlap]_vars

\* ===================================================== agreement aggregator
\* The keyphrase pairs PARTIAL_A is drawn from: the pairs of the doctest of
\* overlap_spans, and a pair with one span each, (6,10) against (7,10).
SamplePairs == Examples \cup { << <<<<6, 10>>>>, <<<<7, 10>>>> >> }

\* The match-outcome mappings: the size of every bucket, and for PARTIAL_A the
\* (gold spans, submit spans) of its items, in the order of items().
AllData ==
    [CORRECT_A : 0..MaxCount, PARTIAL_A : SeqsUpTo(SamplePairs, MaxPartial),
     MISSING_A : 0..MaxCount, SPURIOUS_A : 0..MaxCount,
     INCORRECT_A : 0..MaxCount, CORRECT_B : 0..MaxCount,
     MISSING_B : 0..MaxCount, SPURIOUS_B : 0..MaxCount]

\* a + b for two fractions.
AddFrac(a, b) == Frac(a.num * b.den + b.num * a.den, a.den * b.den)

\* sum(partial_score(a, b) for a, b in data[PARTIAL_A].items()): the first
\* partial_score that raises ends the sum.
RECURSIVE SumPartial(_)
SumPartial(pairs) ==
    IF pairs = <<>> THEN Frac(0, 1)
    ELSE LET rest == SumPartial(SubSeq(pairs, 1, Len(pairs) - 1))
             last == partial_score(pairs[Len(pairs)][1], pairs[Len(pairs)][2])
         IN  IF IsError(rest) THEN rest
             ELSE IF IsError(last) THEN last
             ELSE AddFrac(rest, last)

\* (c_score + p_score) / n, with p_score a fraction or the error of the sum.
Score(c, p, n) ==
    IF IsError(p) THEN p
    ELSE IF n = 0 THEN Err("ZeroDivisionError")
    ELSE Frac(c * p.den + p.num, p.den * n)

\* A faulty concepts_agreement: the assert of lines 58-60 is missing.
MutConceptsAgreement(d, all) ==
    Score(d.CORRECT_A, SumPartial(d.PARTIAL_A),
          d.CORRECT_A + Len(d.PARTIAL_A) + d.MISSING_A + d.SPURIOUS_A
              + d.INCORRECT_A)

\* concepts_agreement(data, all)
concepts_agreement(d, all) ==
    IF ~(all \/ d.INCORRECT_A = 0) THEN Err("AssertionError")
    ELSE Score(d.CORRECT_A, SumPartial(d.PARTIAL_A),
               d.CORRECT_A + Len(d.PARTIAL_A) + d.MISSING_A + d.SPURIOUS_A
                   + d.INCORRECT_A)

\* A faulty relations_agreement: the quotient without the test of n.
MutRelationsAgreement(d) ==
    Div(d.CORRECT_B, d.CORRECT_B + d.MISSING_B + d.SPURIOUS_B)

\* relations_agreement(data)
relations_agreement(d) ==
    LET n == d.CORRECT_B + d.MISSING_B + d.SPURIOUS_B
    IN  IF n # 0 THEN Div(d.CORRECT_B, n) ELSE Frac(1, 1)

\* agreement(data): n runs over every bucket of the mapping.
agreement(d) ==
    Score(d.CORRECT_A + d.CORRECT_B, SumPartial(d.PARTIAL_A),
          d.CORRECT_A + Len(d.PARTIAL_A) + d.MISSING_A + d.SPURIOUS_A
              + d.INCORRECT_A + d.CORRECT_B + d.MISSING_B + d.SPURIOUS_B)

\* compute_metrics(data): the three scores in order; the first exception
\* leaves the function.
compute_metrics(d) ==
    LET c == concepts_agreement(d, TRUE)
        r == relations_agreement(d)
        a == agreement(d)
    IN  IF IsError(c) THEN c
        ELSE IF IsError(r) THEN r
        ELSE IF IsError(a) THEN a
        ELSE [concepts_agreement |-> c, relations_agreement |-> r, agreement |-> a]

InitAgreement ==
    /\ data \in AllData
    /\ fn = "idle" /\ allFlag = TRUE /\ result = NoResult
    /\ CoordIdle /\ OvIdle /\ DrvIdle

CallConceptsAgreement ==
    /\ fn = "idle"
    /\ \E a \in BOOLEAN :
          /\ allFlag' = a
          /\ result' = concepts_agreement(data, a)
    /\ fn' = "concepts_agreement"
    /\ UNCHANGED <<coordVars, ovVars, drvVars, data>>

CallRelationsAgreement ==
    /\ fn = "idle"
    /\ result' = relations_agreement(data)
    /\ fn' = "relations_agreement"
    /\ UNCHANGED <<coordVars, ovVars, drvVars, data, allFlag>>

CallAgreement ==
    /\ fn = "idle"
    /\ result' = agreement(data)
    /\ fn' = "agreement"
    /\ UNCHANGED <<coordVars, ovVars, drvVars, data, allFlag>>

CallComputeMetrics ==
    /\ fn = "idle"
    /\ result' = compute_metrics(data)
    /\ fn' = "compute_metrics"
    /\ UNCHANGED <<coordVars, ovVars, drvVars, data, allFlag>>

NextAgreement ==
    \/ CallConceptsAgreement
    \/ CallRelationsAgreement
    \/ CallAgreement
    \/ CallComputeMetrics

SpecAgreement == InitAgreement /\ [][NextAgreement]_vars

\* ========================================================= main, label loop
\* The labels of the model, in the order sorted() puts them.
LabelOrder == <<"Concept", "Global", "is-a", "same-as">>

Range(f) == {f[k] : k \in DOMAIN f}

\* sorted(set(...)) of the labels in S.
RECURSIVE SortedLabels(_, _)
SortedLabels(S, order) ==
    IF order = <<>> THEN <<>>
    ELSE (IF Head(order) \in S THEN <<Head(order)>> ELSE <<>>)
             \o SortedLabels(S, Tail(order))

\* What match_keyphrases and match_relations can return together for one
\* scope: nothing at all, or one exact and one partial keyphrase match.
MatchOutcomes ==
    { [CORRECT_A |-> 0, PARTIAL_A |-> <<>>, MISSING_A |-> 0, SPURIOUS_A |-> 0,
       INCORRECT_A |-> 0, CORRECT_B |-> 0, MISSING_B |-> 0, SPURIOUS_B |-> 0],
      [CORRECT_A |-> 1, PARTIAL_A |-> << << <<<<6, 10>>>>, <<<<7, 10>>>> >> >>,
       MISSING_A |-> 0, SPURIOUS_A |-> 0,
       INCORRECT_A |-> 0, CORRECT_B |-> 0, MISSING_B |-> 0, SPURIOUS_B |-> 0] }

\* The three label lists main zips with the three selectors (lines 165-168).
LabelGroups == <<keyphrases, relations, <<"Global">>>>

\* The label list of the current group, and the current label.
CurrentLabels == LabelGroups[group + 1]
CurrentLabel == CurrentLabels[idx + 1]

\* A faulty flag: the test `label in relations` is missing.
MutSkipSameAs(label) == label # "same-as"

\* Line 182: skip_same_as=(label != "same-as" and label in relations)
SkipSameAs(label) == label # "same-as" /\ label \in Range(relations)

\* Lines 156-163: the labels of gold, after load_corpus and coordinate.
InitDriver ==
    /\ \E K \in SUBSET Range(LabelOrder), R \in SUBSET Range(LabelOrder) :
          /\ keyphrases = SortedLabels(K, LabelOrder)
          /\ relations = SortedLabels(R, LabelOrder)
    /\ propagate_error \in BOOLEAN
    /\ group = 0 /\ idx = 0 /\ calls = <<>> /\ history = <<>>
    /\ mpc = "labels"
    /\ CoordIdle /\ OvIdle /\ AgIdle

\* Lines 169-191: one iteration of the inner loop, for the current label.
Iterate ==
    /\ mpc = "labels"
    /\ idx < Len(CurrentLabels)
    /\ \E d \in MatchOutcomes :
          /\ data' = d
          /\ result' = compute_metrics(d)
          /\ history' = [l \in DOMAIN history \cup {CurrentLabel} |->
                            IF l = CurrentLabel THEN d ELSE history[l]]
    /\ calls' = Append(calls, [group |-> group, label |-> CurrentLabel,
                               skip_same_as |-> SkipSameAs(CurrentLabel),
                               propagate_error |-> propagate_error])
    /\ IF IsError(result') THEN mpc' = "raised" /\ idx' = idx
                           ELSE mpc' = mpc /\ idx' = idx + 1
    /\ UNCHANGED <<coordVars, ovVars, fn, allFlag, keyphrases, relations,
                   propagate_error, group>>

\* Lines 165-169: the current label list is exhausted; the next one starts,
\* or main returns after the "Global" pass.
NextGroup ==
    /\ mpc = "labels"
    /\ idx >= Len(CurrentLabels)
    /\ IF group + 1 < Len(LabelGroups)
       THEN group' = group + 1 /\ idx' = 0 /\ mpc' = mpc
       ELSE group' = group /\ idx' = idx /\ mpc' = "done"
    /\ UNCHANGED <<coordVars, ovVars, agVars, keyphrases, relations,
                   propagate_error, calls, history>>

NextDriver ==
    \/ Iterate
    \/ NextGroup

SpecDriver == InitDriver /\ [][NextDriver]_vars

\* ------------------------------------------------- claims about coordinate
\* The number of sentences coordinate has removed from the two collections.
Removed == Len(gold0) + Len(submit0) - Len(gold) - Len(submit)

\* The two collections pair up: equal length, identical text per index.
Aligned ==
    /\ Len(gold) = Len(submit)
    /\ \A k \in 1..Len(gold) : gold[k] = submit[k]

\* g is s with exactly one sentence inserted at some position.
IsOneInsertion(g, s) ==
    /\ Len(g) = Len(s) + 1
    /\ \E p \in 0..Len(s) : DelAt(g, p) = s

\* C1: coordinate never raises, whatever the two sentence sequences are.
C1_NeverRaises == pc # "raised"

\* C2: whenever coordinate returns, the two collections have equal length and
\* identical text at every index.
C2_AlignedOnReturn == pc = "done" => Aligned

\* coordinate has returned a non-empty pairing after dropping in the main
\* loop and truncating the longer collection.
C2_Witness ==
    /\ pc = "done"
    /\ Len(gold) >= 1
    /\ Len(dropped) >= 1
    /\ Removed > Len(dropped)

\* C3: when coordinate returns, the number of "Dropped:" lines equals the
\* number of sentences removed from the two collections, the final truncation
\* included.
C3_EveryDropReported == pc = "done" => Len(dropped) = Removed

\* C4: when gold is submit with exactly one sentence inserted (first, middle or
\* last), coordinate returns aligned collections and reports exactly one drop.
C4_OneInsertionOneDrop ==
    IsOneInsertion(gold0, submit0) =>
        /\ pc # "raised"
        /\ pc = "done" => (Aligned /\ Len(dropped) = 1)

\* Every step that stays in the main loop advances i or removes a sentence,
\* and every step that stays in a truncation loop shortens the longer
\* collection.
StepProgress ==
    /\ (pc = "loop" /\ pc' = "loop") =>
          \/ i' = i + 1 /\ gold' = gold /\ submit' = submit
          \/ i' = i /\ Len(gold') + Len(submit') < Len(gold) + Len(submit)
    /\ (pc = "trunc_gold" /\ pc' = "trunc_gold") =>
          Len(gold) > Len(submit) /\ Len(gold') = Len(gold) - 1
    /\ (pc = "trunc_submit" /\ pc' = "trunc_submit") =>
          Len(submit) > Len(gold) /\ Len(submit') = Len(submit) - 1

\* C5: coordinate always converges: every loop step makes progress (it
\* advances i or removes a sentence, a truncation step shortens the longer
\* collection), and every run leaves the three loops after finitely many
\* steps, by returning or by the exception that leaves the call.
C5_Converges ==
    /\ [][StepProgress]_vars
    /\ <>(pc \in {"done", "raised"})

\* coordinate has returned after advancing, dropping and truncating.
C5_Witness ==
    /\ pc = "done"
    /\ i >= 1
    /\ Len(dropped) >= 2
    /\ Removed > Len(dropped)

\* ---------------------------------- claims about overlap_spans, partial_score
\* The offset x lies in a span of ss, that is, the unit [x, x + 1) is covered.
Covered(ss, x) == \E k \in 1..Len(ss) : ss[k][1] <= x /\ x < ss[k][2]

\* The offsets that can be covered by spans1 or spans2.
Offsets ==
    LET all == spans1 \o spans2
    IN  UNION {0..(all[k][2] - 1) : k \in 1..Len(all)}

\* The length covered by both span sets, and by either.
MeasureBoth == Cardinality({x \in Offsets : Covered(spans1, x) /\ Covered(spans2, x)})
MeasureEither == Cardinality({x \in Offsets : Covered(spans1, x) \/ Covered(spans2, x)})

\* The sum of the lengths of the spans of ss.
RECURSIVE TotalLen(_)
TotalLen(ss) ==
    IF ss = <<>> THEN 0 ELSE (Head(ss)[2] - Head(ss)[1]) + TotalLen(Tail(ss))

\* What the doctest says overlap_spans returns for its four calls.
DocExamples ==
    /\ (spans1 = <<<<2, 8>>>> /\ spans2 = <<<<4, 10>>>>) => ovResult = <<4, 8>>
    /\ (spans1 = <<<<2, 8>>>> /\ spans2 = <<<<8, 10>>>>) => ovResult = <<0, 8>>
    /\ (spans1 = <<<<2, 8>>, <<8, 10>>>> /\ spans2 = <<<<8, 10>>>>)
          => ovResult = <<2, 8>>
    /\ (spans1 = <<<<2, 8>>, <<9, 10>>>> /\ spans2 = <<<<8, 10>>>>)
          => ovResult = <<1, 8>>

\* C6: for span sets that are disjoint within each set (touching allowed),
\* overlap_spans returns (I, U) with I the length covered by both sets and U
\* the length covered by either; so I <= U and U = len(S1) + len(S2) - I, and
\* the four documented calls return (4,8), (0,8), (2,8) and (1,8).
C6_OverlapIsMeasure ==
    (ovResult # NoPair /\ Disjoint(spans1) /\ Disjoint(spans2)) =>
        /\ ovResult[1] = MeasureBoth
        /\ ovResult[2] = MeasureEither
        /\ ovResult[1] <= ovResult[2]
        /\ ovResult[2] = TotalLen(spans1) + TotalLen(spans2) - ovResult[1]
        /\ DocExamples

\* overlap_spans has returned for two fragmented span sets that overlap, with
\* a span of one set touching a span of the other.
C6_Witness ==
    /\ ovResult # NoPair
    /\ Len(spans1) = 2 /\ Len(spans2) = 2
    /\ ovResult[1] >= 1
    /\ \E j \in 1..Len(spans1), k \in 1..Len(spans2) : spans1[j][2] = spans2[k][1]

\* C7: partial_score is symmetric: with the arguments swapped overlap_spans
\* returns the same pair and partial_score the same value.
C7_Symmetric ==
    /\ ovResult # NoPair => ovResult = overlap_spans(spans2, spans1)
    /\ psResult # NoResult => psResult = partial_score(spans2, spans1)

\* partial_score has returned a ratio strictly between 0 and 1 for two
\* different keyphrases that have endpoints at the same offset.
C7_Witness ==
    /\ psResult # NoResult /\ ~IsError(psResult)
    /\ ovResult # NoPair
    /\ spans1 # spans2
    /\ 0 < psResult.num /\ psResult.num < psResult.den
    /\ \E j \in 1..Len(spans1), k \in 1..Len(spans2) :
          spans1[j][1] = spans2[k][1] \/ spans1[j][2] = spans2[k][1]

\* ------------------------------------------ claims about the aggregator
\* C8: relations_agreement returns exactly 1.0 when CORRECT_B, MISSING_B and
\* SPURIOUS_B are all empty, and otherwise CORRECT_B / (CORRECT_B + MISSING_B
\* + SPURIOUS_B); it never fails with a division by zero.
C8_RelationsAgreement ==
    fn = "relations_agreement" =>
        LET n == data.CORRECT_B + data.MISSING_B + data.SPURIOUS_B
        IN  /\ ~IsError(result)
            /\ n = 0 => result = [num |-> 1, den |-> 1]
            /\ n # 0 => /\ result.den > 0
                        /\ result.num * n = data.CORRECT_B * result.den

\* relations_agreement has returned for three empty relation buckets.
C8_Witness ==
    /\ fn = "relations_agreement"
    /\ data.CORRECT_B = 0 /\ data.MISSING_B = 0 /\ data.SPURIOUS_B = 0
    /\ result = [num |-> 1, den |-> 1]

\* C9: concepts_agreement called with all=False on a mapping whose INCORRECT_A
\* is non-empty fails with the assertion and produces no score.
C9_AssertionOnIncorrect ==
    (fn = "concepts_agreement" /\ ~allFlag /\ data.INCORRECT_A > 0) =>
        result = Err("AssertionError")

\* concepts_agreement was called with all=False on a mapping with incorrect
\* matches next to correct and partial ones.
C9_Witness ==
    /\ fn = "concepts_agreement" /\ ~allFlag
    /\ data.INCORRECT_A > 0 /\ data.CORRECT_A > 0 /\ Len(data.PARTIAL_A) > 0
    /\ result = Err("AssertionError")

\* ------------------------------------------------ claims about the driver
\* C10: in every scope the driver iterates over, skip_same_as is true unless
\* the scope is exactly the "same-as" label.
C10_SkipUnlessSameAs ==
    \A k \in 1..Len(calls) :
        calls[k].skip_same_as = (calls[k].label # "same-as")

\* C10, amended: skip_same_as is true exactly for the scopes whose label is a
\* relation label of gold other than "same-as": in the relation-label pass it
\* is true unless the label is "same-as"; for a keyphrase label or "Global"
\* that is not also a relation label it is false.
C10_SkipOnlyForRelationLabels ==
    \A k \in 1..Len(calls) :
        /\ calls[k].group = 1 =>
              calls[k].skip_same_as = (calls[k].label # "same-as")
        /\ calls[k].label = "same-as" => ~calls[k].skip_same_as
        /\ (calls[k].group # 1 /\ calls[k].label \notin Range(relations)) =>
              ~calls[k].skip_same_as
        /\ (calls[k].label \in Range(relations) /\ calls[k].label # "same-as") =>
              calls[k].skip_same_as

\* main has returned after a keyphrase-label scope and the "Global" scope
\* without suppression, a relation-label scope with it, and the "same-as"
\* scope.
C10_Witness ==
    /\ mpc = "done"
    /\ \E k \in 1..Len(calls) :
          calls[k].group = 0 /\ calls[k].label = "Concept" /\ ~calls[k].skip_same_as
    /\ \E k \in 1..Len(calls) :
          calls[k].group = 1 /\ calls[k].label = "is-a" /\ calls[k].skip_same_as
    /\ \E k \in 1..Len(calls) :
          calls[k].group = 1 /\ calls[k].label = "same-as" /\ ~calls[k].skip_same_as
    /\ \E k \in 1..Len(calls) :
          calls[k].group = 2 /\ calls[k].label = "Global" /\ ~calls[k].skip_same_as

====
